---- MODULE Spec2Model ----
(***************************************************************************)
(* The 835 remittance ingest of BlobTriggerFunction/FunctionApp.py: the    *)
(* tokenizer, the per-segment extraction loop and its single SQL           *)
(* transaction, as a state machine over the three tables                   *)
(* dbo.edi_835_raw, dbo.edi_835_claims and dbo.edi_835_services.           *)
(*                                                                         *)
(* Text is a sequence of one-character strings, so that split, strip and   *)
(* the numeric and date conversions are computed character by character.   *)
(* Python's None and SQL's NULL are the one value None.                    *)
(***************************************************************************)
EXTENDS Integers, Sequences, FiniteSets, TLC

\* ------------------------------------------------------------------ bounds
\* Longest blob, in terminated segments, that Init draws.
MaxSegs == 3
\* Longest head, in terminated segments, cut from a remittance file.
MaxFileSegs == 4

\* ------------------------------------------------------------ Python values
None == <<"None">>
InvalidOperation == <<"InvalidOperation">>
ValueError == <<"ValueError">>
\* The exceptions a conversion can raise.
Exceptions == {InvalidOperation, ValueError}

\* Surrogate key n handed out by an IDENTITY column.
Id(n) == <<"id", n>>

\* str.strip() removes these from both ends.
Whitespace == {" ", "\n"}

\* The first position from k on that holds no whitespace, Len(s) + 1 when
\* there is none.
RECURSIVE skip(_, _)
skip(s, k) ==
    IF k <= Len(s) /\ s[k] \in Whitespace THEN skip(s, k + 1) ELSE k

\* The last position up to k that holds no whitespace, 0 when there is none.
RECURSIVE skipback(_, _)
skipback(s, k) ==
    IF k >= 1 /\ s[k] \in Whitespace THEN skipback(s, k - 1) ELSE k

lstrip(s) == SubSeq(s, skip(s, 1), Len(s))

rstrip(s) == SubSeq(s, 1, skipback(s, Len(s)))

strip(s) == rstrip(lstrip(s))

\* The position of the first sep in s, 0 when there is none (str.find + 1).
RECURSIVE find(_, _, _)
find(s, sep, k) ==
    IF k > Len(s) THEN 0
    ELSE IF s[k] = sep THEN k
    ELSE find(s, sep, k + 1)

\* s.split(sep): the pieces between the separators, empty pieces kept; with
\* n separators in s there are n + 1 pieces.
split(s, sep) ==
    LET at == {k \in 1..Len(s) : s[k] = sep}
        n == Cardinality(at)
        \* the position of the i-th separator; the two ends of s for 0, n + 1
        cut(i) == IF i = 0 THEN 0
                  ELSE IF i = n + 1 THEN Len(s) + 1
                  ELSE CHOOSE k \in at : Cardinality({j \in at : j < k}) = i - 1
    IN  [i \in 1..(n + 1) |-> SubSeq(s, cut(i - 1) + 1, cut(i) - 1)]

\* s.split(sep, 1)[0]: the text before the first separator.
split1(s, sep) ==
    LET k == find(s, sep, 1)
    IN  IF k = 0 THEN s ELSE SubSeq(s, 1, k - 1)

DigitVal ==
    "0" :> 0 @@ "1" :> 1 @@ "2" :> 2 @@ "3" :> 3 @@ "4" :> 4 @@
    "5" :> 5 @@ "6" :> 6 @@ "7" :> 7 @@ "8" :> 8 @@ "9" :> 9

isdigits(s) == \A k \in 1..Len(s) : s[k] \in DOMAIN DigitVal

\* The number the first k digits of s write.
RECURSIVE IntUpTo(_, _)
IntUpTo(s, k) ==
    IF k = 0 THEN 0 ELSE 10 * IntUpTo(s, k - 1) + DigitVal[s[k]]

\* int(s) of a string of decimal digits; 0 for the empty string.
IntOf(s) == IntUpTo(s, Len(s))

\* decimal.Decimal(v) of a string: <<"Decimal", sign, coefficient, exponent>>
\* as Decimal.as_tuple() gives them, or InvalidOperation.  The literals read
\* are [sign] digits [. digits] and [sign] . digits; exponent, NaN and
\* Infinity literals use characters no drawn amount field holds.
Decimal(v) ==
    LET signed == v # <<>> /\ Head(v) \in {"+", "-"}
        sign == IF v # <<>> /\ Head(v) = "-" THEN 1 ELSE 0
        body == IF signed THEN Tail(v) ELSE v
        dot == find(body, ".", 1)
        intpart == IF dot = 0 THEN body ELSE SubSeq(body, 1, dot - 1)
        fracpart == IF dot = 0 THEN <<>> ELSE SubSeq(body, dot + 1, Len(body))
    IN  IF /\ isdigits(intpart)
           /\ isdigits(fracpart)
           /\ Len(intpart) + Len(fracpart) > 0
        THEN <<"Decimal", sign, IntOf(intpart \o fracpart), 0 - Len(fracpart)>>
        ELSE InvalidOperation

\* dec without its try/except: the conversion error escapes.
dec_uncaught(v) == IF v \in {None, <<>>} THEN None ELSE Decimal(v)

dec(v) ==
    IF v \in {None, <<>>} THEN None
    ELSE LET d == Decimal(v)
         IN  IF d = InvalidOperation THEN None ELSE d

IsLeap(y) == (y % 4 = 0 /\ y % 100 # 0) \/ y % 400 = 0

DaysIn(y, m) ==
    IF m = 2 THEN (IF IsLeap(y) THEN 29 ELSE 28)
    ELSE IF m \in {4, 6, 9, 11} THEN 30
    ELSE 31

\* The month alternatives of _strptime's %m, in the order the regex tries
\* them: 1[0-2] | 0[1-9] | [1-9].
MonthMatch(s) ==
    \/ Len(s) = 2 /\ s[1] = "1" /\ s[2] \in {"0", "1", "2"}
    \/ Len(s) = 2 /\ s[1] = "0" /\ s[2] \in DOMAIN DigitVal \ {"0"}
    \/ Len(s) = 1 /\ s[1] \in DOMAIN DigitVal \ {"0"}

\* The day alternatives of %d: 3[0-1] | [1-2]\d | 0[1-9] | [1-9] | " "[1-9].
DayMatch(s) ==
    \/ Len(s) = 2 /\ s[1] = "3" /\ s[2] \in {"0", "1"}
    \/ Len(s) = 2 /\ s[1] \in {"1", "2"} /\ s[2] \in DOMAIN DigitVal
    \/ Len(s) = 2 /\ s[1] = "0" /\ s[2] \in DOMAIN DigitVal \ {"0"}
    \/ Len(s) = 1 /\ s[1] \in DOMAIN DigitVal \ {"0"}
    \/ Len(s) = 2 /\ s[1] = " " /\ s[2] \in DOMAIN DigitVal \ {"0"}

\* datetime.datetime.strptime(s, "%Y%m%d").date(): <<"Date", y, m, d>> or
\* ValueError.  The format's regex is \d\d\d\d, then a month, then a day;
\* the two-character month is tried first and the regex backtracks to the
\* one-character month when no day follows it.  Text left after the day
\* ("unconverted data remains") and a day the month does not have are
\* ValueErrors too.
strptime(s) ==
    LET year == SubSeq(s, 1, 4)
        rest == SubSeq(s, 5, Len(s))
        cuts == {n \in {2, 1} : /\ n < Len(rest)
                                /\ MonthMatch(SubSeq(rest, 1, n))
                                /\ DayMatch(SubSeq(rest, n + 1, Len(rest)))}
    IN  IF Len(s) < 6 \/ ~isdigits(year) \/ cuts = {} THEN ValueError
        ELSE LET n == IF 2 \in cuts THEN 2 ELSE 1
                 y == IntOf(year)
                 m == IntOf(SubSeq(rest, 1, n))
                 d == IntOf(lstrip(SubSeq(rest, n + 1, Len(rest))))
             IN  IF y >= 1 /\ d <= DaysIn(y, m)
                 THEN <<"Date", y, m, d>>
                 ELSE ValueError

\* Lines 12-18.
safe_date(yyyymmdd) ==
    IF yyyymmdd \in {None, <<>>} THEN None
    ELSE LET d == strptime(yyyymmdd)
         IN  IF d = ValueError THEN None ELSE d

\* The composite kept whole: no split on the component separator.
split_composite_unsplit(val, comp_sep) ==
    IF val \in {None, <<>>} THEN <<>> ELSE <<val>>

\* Lines 20-21.
split_composite(val, comp_sep) ==
    IF val \in {None, <<>>} THEN <<>> ELSE split(val, comp_sep)

\* ------------------------------------------------------------------ inputs
\* CLP|ABC123|1|100.00|80.00|20.00|||11||
SegClpExample ==
    <<"C", "L", "P", "|", "A", "B", "C", "1", "2", "3", "|", "1", "|",
      "1", "0", "0", ".", "0", "0", "|", "8", "0", ".", "0", "0", "|",
      "2", "0", ".", "0", "0", "|", "|", "|", "1", "1", "|", "|">>
\* CLP|X9|1|1x
SegClpShort == <<"C", "L", "P", "|", "X", "9", "|", "1", "|", "1", "x">>
\* NM1|QC|1|||||||P1
SegNm1Patient ==
    <<"N", "M", "1", "|", "Q", "C", "|", "1", "|", "|", "|", "|", "|", "|",
      "|", "P", "1">>
\* NM1|QC|1|||||||P2
SegNm1Patient2 ==
    <<"N", "M", "1", "|", "Q", "C", "|", "1", "|", "|", "|", "|", "|", "|",
      "|", "P", "2">>
\* NM1|PE|2|||||||V7
SegNm1Provider ==
    <<"N", "M", "1", "|", "P", "E", "|", "2", "|", "|", "|", "|", "|", "|",
      "|", "V", "7">>
\* NM1|QC
SegNm1NoId == <<"N", "M", "1", "|", "Q", "C">>
\* DTM|472|20230115
SegDtmService ==
    <<"D", "T", "M", "|", "4", "7", "2", "|",
      "2", "0", "2", "3", "0", "1", "1", "5">>
\* DTM|232|20240229
SegDtmClaim ==
    <<"D", "T", "M", "|", "2", "3", "2", "|",
      "2", "0", "2", "4", "0", "2", "2", "9">>
\* DTM|050|20231399
SegDtmClaimBad ==
    <<"D", "T", "M", "|", "0", "5", "0", "|",
      "2", "0", "2", "3", "1", "3", "9", "9">>
\* DTM|405|20230115
SegDtmOther ==
    <<"D", "T", "M", "|", "4", "0", "5", "|",
      "2", "0", "2", "3", "0", "1", "1", "5">>
\* DTM|472
SegDtmShort == <<"D", "T", "M", "|", "4", "7", "2">>
\* SVC|HC^A0428^RJ|100.00|80.00
SegSvcExample ==
    <<"S", "V", "C", "|", "H", "C", "^", "A", "0", "4", "2", "8", "^", "R",
      "J", "|", "1", "0", "0", ".", "0", "0", "|", "8", "0", ".", "0", "0">>
\* " SVC " (a bare tag between blanks)
SegSvcBare == <<" ", "S", "V", "C", " ">>
\* CAS|CO|45|20.00
SegCasExample ==
    <<"C", "A", "S", "|", "C", "O", "|", "4", "5", "|",
      "2", "0", ".", "0", "0">>
\* CAS|PR||-
SegCasShort == <<"C", "A", "S", "|", "P", "R", "|", "|", "-">>
\* ST|835
SegOther == <<"S", "T", "|", "8", "3", "5">>
\* a line break and a blank: whitespace only
SegBlank == <<"\n", " ">>

\* The segment texts a blob is drawn from.
SegLib ==
    { SegClpExample, SegClpShort, SegNm1Patient, SegNm1Patient2,
      SegNm1Provider, SegNm1NoId, SegDtmService, SegDtmClaim, SegDtmClaimBad,
      SegDtmOther, SegDtmShort, SegSvcExample, SegSvcBare, SegCasExample,
      SegCasShort, SegOther, SegBlank }

\* Longer remittance files, of which Init also draws the heads.
Files ==
    { <<SegClpExample, SegSvcExample, SegSvcBare, SegCasExample,
        SegDtmService, SegNm1Provider>>,
      <<SegOther, SegClpExample, SegNm1Patient, SegDtmClaim, SegSvcExample,
        SegClpShort>>,
      <<SegSvcBare, SegDtmService, SegClpShort, SegNm1Patient2, SegCasShort,
        SegDtmClaimBad>> }

\* Every segment of a blob is followed by the terminator.
RECURSIVE Terminated(_)
Terminated(ss) ==
    IF ss = <<>> THEN <<>> ELSE Head(ss) \o <<"~">> \o Terminated(Tail(ss))

Blobs(lib, n) == { Terminated(ss) : ss \in UNION { [1..k -> lib] : k \in 0..n } }

\* The leading segments, up to n of them, of each file.
Heads(files, n) ==
    { Terminated(SubSeq(f, 1, k)) : f \in files, k \in 0..n }

\* The runs: one blob-trigger invocation of main each.
Runs == {1, 2}

\* inputBlob.name of run r.
BlobName(r) == <<"r", "a", ".", "8", "3", "5">>

\* ------------------------------------------------------------------- state
VARIABLES
    content,                \* content[r]: the decoded bytes of run r's blob
    pc,                     \* pc[r]: where run r is
    segs,                   \* the locals of main, per run
    now,
    raw_rows,
    pos,                    \* the index into segs of the loop of line 75
    current_claim_db_id,
    current_claim_ctx,
    pending_service_id,
    claims_added,
    services_added,
    error,                  \* the exception main re-raised, or None
    summary,                \* the line logged at line 170 and its time, or None
    clock,                  \* the UTC clock
    edi_835_raw,            \* the three tables, uncommitted rows included
    edi_835_claims,
    edi_835_services,
    undo,                   \* undo[r]: row images run r's rollback restores
    next_claim_id,          \* the IDENTITY counters
    next_service_id

\* The legacy entry point, BlobTriggerFunction/__init__.py: one invocation of
\* its main on the blob content[1].
VARIABLES
    legacy_pc,              \* where that main is
    claims,                 \* what parse_edi returned
    inserted,               \* how many claims the loop of line 34 has inserted
    success,                \* what insert_claims_to_sql returned, or None
    propagated,             \* the exception main let out to its invoker, or None
    BlobAudit               \* the table dbo.BlobAudit, uncommitted rows included

legacy == <<legacy_pc, claims, inserted, success, propagated, BlobAudit>>

locals ==
    <<segs, now, raw_rows, pos, current_claim_db_id, current_claim_ctx,
      pending_service_id, claims_added, services_added>>
tables == <<edi_835_raw, edi_835_claims, edi_835_services, undo>>
identities == <<next_claim_id, next_service_id>>
main_vars == <<content, pc, locals, error, summary, clock, tables, identities>>
vars == <<main_vars, legacy>>

\* A row's xact is the run whose open transaction inserted or last wrote it,
\* Committed once that transaction has committed.
Committed == 0

NoContext == [patient_id |-> None, provider_id |-> None]

InitWith(blobs, present) ==
    /\ \E blob \in [present -> blobs] :
        content = [r \in Runs |-> IF r \in present THEN blob[r] ELSE <<>>]
    /\ pc = [r \in Runs |-> IF r \in present THEN "start" ELSE "absent"]
    /\ segs = [r \in Runs |-> <<>>]
    /\ now = [r \in Runs |-> 0]
    /\ raw_rows = [r \in Runs |-> <<>>]
    /\ pos = [r \in Runs |-> 0]
    /\ current_claim_db_id = [r \in Runs |-> None]
    /\ current_claim_ctx = [r \in Runs |-> NoContext]
    /\ pending_service_id = [r \in Runs |-> None]
    /\ claims_added = [r \in Runs |-> 0]
    /\ services_added = [r \in Runs |-> 0]
    /\ error = [r \in Runs |-> None]
    /\ summary = [r \in Runs |-> None]
    /\ clock = 0
    /\ edi_835_raw = <<>>
    /\ edi_835_claims = {}
    /\ edi_835_services = {}
    /\ undo = [r \in Runs |-> {}]
    /\ next_claim_id = 1
    /\ next_service_id = 1
    /\ legacy_pc = "start"
    /\ claims = <<>>
    /\ inserted = 0
    /\ success = None
    /\ propagated = None
    /\ BlobAudit = <<>>

\* One delivery: run 1 ingests any blob of up to MaxSegs segments or the
\* head of a file.
Init == InitWith(Blobs(SegLib, MaxSegs) \cup Heads(Files, MaxFileSegs), {1})

\* Two deliveries, of the same blob or of two blobs.
InitConc == InitWith(Heads(Files, MaxFileSegs), Runs)

\* ------------------------------------------------------------ the SQL store
PyodbcError == <<"pyodbc.Error">>

\* ROLLBACK of run r's transaction (cn.close() without a commit): the rows
\* it inserted go, the rows it wrote get their old image back.
RolledBackRaw(r) == SelectSeq(edi_835_raw, LAMBDA row : row.xact # r)

\* The rollback of a connection left in autocommit mode: every statement
\* was committed as it ran, and close() undoes nothing.
RolledBackAutocommit(table, name, r) ==
    {IF row.xact = r THEN [row EXCEPT !.xact = Committed] ELSE row : row \in table}

RolledBack(table, name, r) ==
    {row \in table : row.xact # r}
        \cup {u.row : u \in {u \in undo[r] : u.table = name}}

\* COMMIT of run r's transaction.
CommittedRows(table, r) ==
    {IF row.xact = r THEN [row EXCEPT !.xact = Committed] ELSE row : row \in table}

CommittedRaw(r) ==
    [k \in DOMAIN edi_835_raw |->
        IF edi_835_raw[k].xact = r
        THEN [edi_835_raw[k] EXCEPT !.xact = Committed]
        ELSE edi_835_raw[k]]

\* The rows UPDATE ... WHERE key = id reaches from run r's transaction: the
\* committed ones and its own; a NULL id equals no key.
Matching(table, key, id, r) ==
    {row \in table : id # None /\ row[key] = id /\ row.xact \in {Committed, r}}

\* UPDATE table SET ... WHERE key = id, in run r's transaction; set[row] is
\* the row after the SET clause.
Updated(table, key, id, r, set) ==
    LET hit == Matching(table, key, id, r)
    IN  (table \ hit) \cup {[set[row] EXCEPT !.xact = r] : row \in hit}

\* The row images that update adds to the transaction's undo log.
Logged(table, name, key, id, r) ==
    undo[r] \cup {[table |-> name, row |-> row] :
                    row \in {h \in Matching(table, key, id, r) : h.xact = Committed}}

\* SET column = ? with no COALESCE: a NULL parameter overwrites the column.
Overwrite(a, b) == a

\* COALESCE(?, column)
COALESCE(a, b) == IF a # None THEN a ELSE b

\* ------------------------------------------------------------- main's steps
\* main's frame is gone; now[r] stays as the time on the run's log lines.
ClearLocals(r) ==
    /\ segs' = [segs EXCEPT ![r] = <<>>]
    /\ now' = now
    /\ raw_rows' = [raw_rows EXCEPT ![r] = <<>>]
    /\ pos' = [pos EXCEPT ![r] = 0]
    /\ current_claim_db_id' = [current_claim_db_id EXCEPT ![r] = None]
    /\ current_claim_ctx' = [current_claim_ctx EXCEPT ![r] = NoContext]
    /\ pending_service_id' = [pending_service_id EXCEPT ![r] = None]
    /\ claims_added' = [claims_added EXCEPT ![r] = 0]
    /\ services_added' = [services_added EXCEPT ![r] = 0]

\* Lines 174-186: the handler logs and re-raises, and the finally block
\* closes the connection, which rolls the open transaction back.
Raise(r, exc) ==
    /\ pc' = [pc EXCEPT ![r] = "raised"]
    /\ error' = [error EXCEPT ![r] = exc]
    /\ edi_835_raw' = RolledBackRaw(r)
    /\ edi_835_claims' = RolledBack(edi_835_claims, "claims", r)
    /\ edi_835_services' = RolledBack(edi_835_services, "services", r)
    /\ undo' = [undo EXCEPT ![r] = {}]
    /\ ClearLocals(r)
    /\ UNCHANGED <<content, summary, clock, identities, legacy>>

\* Line 30 with "if s" for "if s.strip()": blank pieces are kept.
TokenizeUnstripped(text) == SelectSeq(split(text, "~"), LAMBDA s : s # <<>>)

\* Line 30: the stripped-nonempty pieces between the terminators.
Tokenize(text) == SelectSeq(split(text, "~"), LAMBDA s : strip(s) # <<>>)

\* os.environ.get("SQLConnectionString") when the setting is there.
ConnStr == <<"D", "S", "N">>

\* Lines 24-51: decode and tokenize, read the setting, connect, probe the
\* server, read the clock.
Open(r) ==
    /\ pc[r] = "start"
    /\ \E conn_str \in {None, ConnStr}, ok \in BOOLEAN :
        IF conn_str \in {None, <<>>}
        THEN \* line 39: return, with no connection to close
             /\ ok
             /\ pc' = [pc EXCEPT ![r] = "returned"]
             /\ UNCHANGED <<content, locals, error, summary, clock, tables,
                            identities, legacy>>
        ELSE IF ~ok
        THEN Raise(r, PyodbcError)
        ELSE /\ pc' = [pc EXCEPT ![r] = "raw"]
             /\ segs' = [segs EXCEPT ![r] = Tokenize(content[r])]
             /\ clock' = clock + 1
             /\ now' = [now EXCEPT ![r] = clock + 1]
             /\ UNCHANGED <<content, raw_rows, pos, current_claim_db_id,
                            current_claim_ctx, pending_service_id,
                            claims_added, services_added, error, summary,
                            tables, identities, legacy>>

\* Lines 54-57.
RawRows(r) ==
    [k \in 1..Len(segs[r]) |->
        [segment_type |-> strip(split1(segs[r][k], "|")),
         segment_content |-> segs[r][k],
         source_file_name |-> BlobName(r),
         ingestion_timestamp |-> now[r]]]

\* Lines 53-73: build and insert the raw rows, set up the parse context.
InsertRaw(r) ==
    /\ pc[r] = "raw"
    /\ \E ok \in BOOLEAN :
        LET rows == RawRows(r)
        IN  IF rows # <<>> /\ ~ok
            THEN Raise(r, PyodbcError)
            ELSE /\ rows = <<>> => ok
                 /\ raw_rows' = [raw_rows EXCEPT ![r] = rows]
                 /\ edi_835_raw' = edi_835_raw \o
                        [k \in DOMAIN rows |-> [xact |-> r] @@ rows[k]]
                 /\ pos' = [pos EXCEPT ![r] = 1]
                 /\ current_claim_db_id' = [current_claim_db_id EXCEPT ![r] = None]
                 /\ current_claim_ctx' = [current_claim_ctx EXCEPT ![r] = NoContext]
                 /\ pending_service_id' = [pending_service_id EXCEPT ![r] = None]
                 /\ claims_added' = [claims_added EXCEPT ![r] = 0]
                 /\ services_added' = [services_added EXCEPT ![r] = 0]
                 /\ pc' = [pc EXCEPT ![r] = "parse"]
                 /\ UNCHANGED <<content, segs, now, error, summary, clock,
                                edi_835_claims, edi_835_services, undo,
                                identities, legacy>>

TagCLP == <<"C", "L", "P">>
TagNM1 == <<"N", "M", "1">>
TagDTM == <<"D", "T", "M">>
TagSVC == <<"S", "V", "C">>
TagCAS == <<"C", "A", "S">>
QualQC == <<"Q", "C">>
Qual74 == <<"7", "4">>
QualPE == <<"P", "E">>
Qual472 == <<"4", "7", "2">>
Qual050 == <<"0", "5", "0">>
Qual232 == <<"2", "3", "2">>
Qual233 == <<"2", "3", "3">>

\* Lines 76-77, for the segment the loop is at.
Parts(r) == split(segs[r][pos[r]], "|")
\* Line 77 without the strip.
TagUnstripped(r) == Parts(r)[1]

\* Line 77.
Tag(r) == strip(Parts(r)[1])

InLoop(r) == pc[r] = "parse" /\ pos[r] <= Len(segs[r])

\* parts[k].strip() if len(parts) > k else None
Field(parts, k) == IF Len(parts) > k THEN strip(parts[k + 1]) ELSE None

\* The exception evaluating these values raised, None when none did.
Raised(values) ==
    IF \E k \in DOMAIN values : values[k] \in Exceptions
    THEN CHOOSE e \in Exceptions : \E k \in DOMAIN values : values[k] = e
    ELSE None

\* The end of a loop iteration that touched no row.
NextSegment(r) ==
    /\ pos' = [pos EXCEPT ![r] = pos[r] + 1]
    /\ UNCHANGED <<content, pc, segs, now, raw_rows, error, summary, clock,
                   legacy>>

\* Lines 82-90 and 105: the values of the claim INSERT of a CLP segment read
\* with context ctx.
ClaimColumns(parts, ctx) ==
    [clp_patient_control_number |-> Field(parts, 1),
     clp_claim_status_code |-> Field(parts, 2),
     clp_total_charge_amount |-> dec(Field(parts, 3)),
     clp_payment_amount |-> dec(Field(parts, 4)),
     clp_patient_responsibility |-> dec(Field(parts, 5)),
     clp_payer_claim_control_number |-> Field(parts, 7),
     clp_facility_type_code |-> Field(parts, 8),
     clp_claim_frequency_code |-> Field(parts, 9),
     nm1_patient_id |-> ctx.patient_id,
     nm1_provider_id |-> ctx.provider_id,
     dtm_service_date |-> None]

ClaimValues(r, parts) == ClaimColumns(parts, current_claim_ctx[r])

\* The CLP branch without line 81: the pending service outlives the claim.
PendingKeptAfterClp(r) == pending_service_id[r]

\* Line 81: pending_service_id = None.
PendingAfterClp(r) == None

\* Lines 79-110.  The inserted row keeps, beside its columns, the run and
\* the segment it came from (h_run, h_seg: history no statement reads).
Clp(r) ==
    /\ InLoop(r)
    /\ Tag(r) = TagCLP
    /\ \E ok \in BOOLEAN :
        LET values == ClaimValues(r, Parts(r))
            exc == Raised(values)
            row == [claim_id |-> Id(next_claim_id),
                    source_file_name |-> BlobName(r),
                    ingestion_timestamp |-> now[r],
                    xact |-> r,
                    h_run |-> r,
                    h_seg |-> pos[r]] @@ values
        IN  IF exc # None THEN ok /\ Raise(r, exc)
            ELSE IF ~ok THEN Raise(r, PyodbcError)
            ELSE /\ edi_835_claims' = edi_835_claims \cup {row}
                 /\ next_claim_id' = next_claim_id + 1
                 /\ current_claim_db_id' =
                        [current_claim_db_id EXCEPT ![r] = row.claim_id]
                 /\ pending_service_id' =
                        [pending_service_id EXCEPT ![r] = PendingAfterClp(r)]
                 /\ claims_added' = [claims_added EXCEPT ![r] = claims_added[r] + 1]
                 /\ NextSegment(r)
                 /\ UNCHANGED <<current_claim_ctx, services_added, edi_835_raw,
                                edi_835_services, undo, next_service_id>>

\* Lines 113-118: the context after an NM1 segment read with context ctx.
Nm1Ctx(ctx, parts) ==
    LET entity == Field(parts, 1)
        id_val == Field(parts, 9)
    IN  IF entity = QualQC THEN [ctx EXCEPT !.patient_id = id_val]
        ELSE IF entity \in {Qual74, QualPE} THEN [ctx EXCEPT !.provider_id = id_val]
        ELSE ctx

Nm1Context(r, parts) == Nm1Ctx(current_claim_ctx[r], parts)

\* Lines 120-126: the SET clause of the NM1 update.
Nm1Set(row, ctx) ==
    [row EXCEPT !.nm1_patient_id = COALESCE(ctx.patient_id, row.nm1_patient_id),
                !.nm1_provider_id = COALESCE(ctx.provider_id, row.nm1_provider_id)]

\* Lines 112-126.
Nm1(r) ==
    /\ InLoop(r)
    /\ Tag(r) = TagNM1
    /\ \E ok \in BOOLEAN :
        LET parts == Parts(r)
            entity == Field(parts, 1)
            ctx == Nm1Context(r, parts)
            exc == Raised(<<entity, Field(parts, 9)>>)
            set == [row \in edi_835_claims |-> Nm1Set(row, ctx)]
        IN  IF exc # None THEN ok /\ Raise(r, exc)
            ELSE IF /\ current_claim_db_id[r] # None
                    /\ entity \in {QualQC, Qual74, QualPE}
            THEN IF ~ok THEN Raise(r, PyodbcError)
                 ELSE /\ edi_835_claims' =
                            Updated(edi_835_claims, "claim_id",
                                    current_claim_db_id[r], r, set)
                      /\ undo' = [undo EXCEPT ![r] =
                            Logged(edi_835_claims, "claims", "claim_id",
                                   current_claim_db_id[r], r)]
                      /\ current_claim_ctx' = [current_claim_ctx EXCEPT ![r] = ctx]
                      /\ NextSegment(r)
                      /\ UNCHANGED <<current_claim_db_id, pending_service_id,
                                     claims_added, services_added, edi_835_raw,
                                     edi_835_services, identities>>
            ELSE /\ ok
                 /\ current_claim_ctx' = [current_claim_ctx EXCEPT ![r] = ctx]
                 /\ NextSegment(r)
                 /\ UNCHANGED <<current_claim_db_id, pending_service_id,
                                claims_added, services_added, tables, identities>>

\* The dispatch with the service-date qualifier falling through to the
\* claim when no service is pending.
DtmTargetFallThrough(r, dtm_qual) ==
    IF dtm_qual = Qual472 /\ pending_service_id[r] # None
    THEN <<"service", pending_service_id[r]>>
    ELSE IF /\ dtm_qual \in {Qual472, Qual050, Qual232, Qual233}
            /\ current_claim_db_id[r] # None
    THEN <<"claim", current_claim_db_id[r]>>
    ELSE None

\* Lines 133-138: which row a DTM segment patches: <<"service", id>>,
\* <<"claim", id>> or None.
DtmTarget(r, dtm_qual) ==
    IF dtm_qual = Qual472 /\ pending_service_id[r] # None
    THEN <<"service", pending_service_id[r]>>
    ELSE IF /\ dtm_qual \in {Qual050, Qual232, Qual233}
            /\ current_claim_db_id[r] # None
    THEN <<"claim", current_claim_db_id[r]>>
    ELSE None

\* Lines 128-138.
Dtm(r) ==
    /\ InLoop(r)
    /\ Tag(r) = TagDTM
    /\ \E ok \in BOOLEAN :
        LET parts == Parts(r)
            dtm_qual == strip(parts[2])
            dt == safe_date(strip(parts[3]))
            target == IF Len(parts) > 2 THEN DtmTarget(r, dtm_qual) ELSE None
            exc == IF Len(parts) > 2 THEN Raised(<<dt>>) ELSE None
            SetService ==
                [row \in edi_835_services |-> [row EXCEPT !.service_date = dt]]
            SetClaim ==
                [row \in edi_835_claims |-> [row EXCEPT !.dtm_service_date = dt]]
        IN  IF exc # None THEN ok /\ Raise(r, exc)
            ELSE IF target = None
            THEN /\ ok
                 /\ NextSegment(r)
                 /\ UNCHANGED <<current_claim_db_id, current_claim_ctx,
                                pending_service_id, claims_added,
                                services_added, tables, identities>>
            ELSE IF ~ok THEN Raise(r, PyodbcError)
            ELSE IF target[1] = "service"
            THEN /\ edi_835_services' =
                        Updated(edi_835_services, "service_id", target[2], r,
                                SetService)
                 /\ undo' = [undo EXCEPT ![r] =
                        Logged(edi_835_services, "services", "service_id",
                               target[2], r)]
                 /\ NextSegment(r)
                 /\ UNCHANGED <<current_claim_db_id, current_claim_ctx,
                                pending_service_id, claims_added,
                                services_added, edi_835_raw, edi_835_claims,
                                identities>>
            ELSE /\ edi_835_claims' =
                        Updated(edi_835_claims, "claim_id", target[2], r,
                                SetClaim)
                 /\ undo' = [undo EXCEPT ![r] =
                        Logged(edi_835_claims, "claims", "claim_id",
                               target[2], r)]
                 /\ NextSegment(r)
                 /\ UNCHANGED <<current_claim_db_id, current_claim_ctx,
                                pending_service_id, claims_added,
                                services_added, edi_835_raw, edi_835_services,
                                identities>>

\* The service INSERT keyed by the newest claim of the table instead of the
\* key the run carries, and taking the first component as the code.
ServiceValuesNewestClaim(r, parts) ==
    LET comps == split_composite(Field(parts, 1), "^")
    IN  [claim_id |-> Id(next_claim_id - 1),
         svc_procedure_code |-> IF Len(comps) >= 1 THEN comps[1] ELSE None,
         svc_charge_amount |-> dec(Field(parts, 2)),
         svc_paid_amount |-> dec(Field(parts, 3)),
         service_date |-> None,
         cas_group_code |-> None,
         cas_reason_code |-> None,
         cas_adjustment_amount |-> None]

\* Lines 141-153: the values of the service INSERT of an SVC segment read
\* with claim claim_id open; the columns it does not name are NULL.
ServiceColumns(parts, claim_id) ==
    LET proc_composite == Field(parts, 1)
        comps == split_composite(proc_composite, "^")
    IN  [claim_id |-> claim_id,
         svc_procedure_code |-> IF Len(comps) >= 2 THEN comps[2] ELSE None,
         svc_charge_amount |-> dec(Field(parts, 2)),
         svc_paid_amount |-> dec(Field(parts, 3)),
         service_date |-> None,
         cas_group_code |-> None,
         cas_reason_code |-> None,
         cas_adjustment_amount |-> None]

\* The service INSERT keyed by the last identity the claims table handed
\* out, whichever run it went to.
ServiceValuesLastIdentity(r, parts) ==
    ServiceColumns(parts, IF next_claim_id > 1 THEN Id(next_claim_id - 1) ELSE None)

ServiceValues(r, parts) == ServiceColumns(parts, current_claim_db_id[r])

\* Lines 140-156.  h_run and h_seg are history fields: the run and the
\* segment the row came from.
Svc(r) ==
    /\ InLoop(r)
    /\ Tag(r) = TagSVC
    /\ \E ok \in BOOLEAN :
        LET values == ServiceValues(r, Parts(r))
            exc == Raised(values)
            row == [service_id |-> Id(next_service_id),
                    xact |-> r,
                    h_run |-> r,
                    h_seg |-> pos[r]] @@ values
        IN  IF exc # None THEN ok /\ Raise(r, exc)
            ELSE IF ~ok THEN Raise(r, PyodbcError)
            ELSE /\ edi_835_services' = edi_835_services \cup {row}
                 /\ next_service_id' = next_service_id + 1
                 /\ pending_service_id' =
                        [pending_service_id EXCEPT ![r] = row.service_id]
                 /\ services_added' =
                        [services_added EXCEPT ![r] = services_added[r] + 1]
                 /\ NextSegment(r)
                 /\ UNCHANGED <<current_claim_db_id, current_claim_ctx,
                                claims_added, edi_835_raw, edi_835_claims,
                                undo, next_claim_id>>

\* Lines 159-161: the adjustment triple of a CAS segment.
CasValues(parts) ==
    [cas_group_code |-> Field(parts, 1),
     cas_reason_code |-> Field(parts, 2),
     cas_adjustment_amount |-> dec(Field(parts, 3))]

\* The CAS update with WHERE claim_id = ?: every service of the open claim.
CasWhereClaim(r) == <<"claim_id", current_claim_db_id[r]>>

\* Lines 162-166: the rows the CAS update reaches.
CasWhere(r) == <<"service_id", pending_service_id[r]>>

\* Lines 158-166.  With no pending service the elif is false and the
\* segment falls through the whole chain.
Cas(r) ==
    /\ InLoop(r)
    /\ Tag(r) = TagCAS
    /\ \E ok \in BOOLEAN :
        LET cas == CasValues(Parts(r))
            exc == Raised(cas)
            where == CasWhere(r)
            set == [row \in edi_835_services |->
                        [row EXCEPT
                            !.cas_group_code = cas.cas_group_code,
                            !.cas_reason_code = cas.cas_reason_code,
                            !.cas_adjustment_amount = cas.cas_adjustment_amount]]
        IN  IF pending_service_id[r] = None
            THEN /\ ok
                 /\ NextSegment(r)
                 /\ UNCHANGED <<current_claim_db_id, current_claim_ctx,
                                pending_service_id, claims_added,
                                services_added, tables, identities>>
            ELSE IF exc # None THEN ok /\ Raise(r, exc)
            ELSE IF ~ok THEN Raise(r, PyodbcError)
            ELSE /\ edi_835_services' =
                        Updated(edi_835_services, where[1], where[2], r, set)
                 /\ undo' = [undo EXCEPT ![r] =
                        Logged(edi_835_services, "services", where[1],
                               where[2], r)]
                 /\ NextSegment(r)
                 /\ UNCHANGED <<current_claim_db_id, current_claim_ctx,
                                pending_service_id, claims_added,
                                services_added, edi_835_raw, edi_835_claims,
                                identities>>

\* A segment of an unknown tag taken as the end of the service: the pending
\* service is dropped.
OtherDropsPending(r) ==
    /\ InLoop(r)
    /\ Tag(r) \notin {TagCLP, TagNM1, TagDTM, TagSVC, TagCAS}
    /\ NextSegment(r)
    /\ pending_service_id' = [pending_service_id EXCEPT ![r] = None]
    /\ UNCHANGED <<current_claim_db_id, current_claim_ctx, claims_added,
                   services_added, tables, identities>>

\* Line 75 for a tag no branch of the chain names.
Other(r) ==
    /\ InLoop(r)
    /\ Tag(r) \notin {TagCLP, TagNM1, TagDTM, TagSVC, TagCAS}
    /\ NextSegment(r)
    /\ UNCHANGED <<current_claim_db_id, current_claim_ctx, pending_service_id,
                   claims_added, services_added, tables, identities>>

\* Lines 168-172 and the finally block: commit, log the counts, close.
Commit(r) ==
    /\ pc[r] = "parse"
    /\ pos[r] > Len(segs[r])
    /\ \E ok \in BOOLEAN :
        IF ~ok THEN Raise(r, PyodbcError)
        ELSE /\ edi_835_raw' = CommittedRaw(r)
             /\ edi_835_claims' = CommittedRows(edi_835_claims, r)
             /\ edi_835_services' = CommittedRows(edi_835_services, r)
             /\ undo' = [undo EXCEPT ![r] = {}]
             /\ clock' = clock + 1
             /\ summary' = [summary EXCEPT ![r] =
                    [at |-> clock + 1,
                     claims |-> claims_added[r],
                     services |-> services_added[r],
                     raw |-> Len(raw_rows[r])]]
             /\ pc' = [pc EXCEPT ![r] = "committed"]
             /\ ClearLocals(r)
             /\ UNCHANGED <<content, error, identities, legacy>>

\* One step of run r.
Run(r) ==
    \/ Open(r)
    \/ InsertRaw(r)
    \/ Clp(r)
    \/ Nm1(r)
    \/ Dtm(r)
    \/ Svc(r)
    \/ Cas(r)
    \/ Other(r)
    \/ Commit(r)

Next == \E r \in Runs : Run(r)

Spec == Init /\ [][Next]_vars

SpecConc == InitConc /\ [][Next]_vars

\* ------------------------------------------- the legacy entry point
\* BlobTriggerFunction/__init__.py: parse_edi, insert_claims_to_sql and main.
IndexError == <<"IndexError">>
UnicodeDecodeError == <<"UnicodeDecodeError">>
True == <<"True">>
False == <<"False">>

\* A float has no trailing zeros of its own: 100.00 and 100 are one value.
RECURSIVE Shortest(_, _)
Shortest(coef, exp) ==
    IF coef = 0 THEN <<0, 0>>
    ELSE IF exp < 0 /\ coef % 10 = 0 THEN Shortest(coef \div 10, exp + 1)
    ELSE <<coef, exp>>

\* float(s) of a string: blanks around the numeral are dropped, the numeral
\* is read as Decimal reads it, and a string that is none raises ValueError.
float(s) ==
    LET d == Decimal(strip(s))
    IN  IF d = InvalidOperation THEN ValueError
        ELSE <<"float", d[2], Shortest(d[3], d[4])[1], Shortest(d[3], d[4])[2]>>

startswith(s, prefix) ==
    Len(s) >= Len(prefix) /\ SubSeq(s, 1, Len(prefix)) = prefix

\* Lines 11-14 for one line that starts with CLP: the claim, or the
\* exception parts[1], parts[3] or float raised.
ParsedLine(line) ==
    LET parts == split(line, "|")
    IN  IF Len(parts) < 2 THEN [raised |-> IndexError, claim |-> None]
        ELSE IF Len(parts) < 4 THEN [raised |-> IndexError, claim |-> None]
        ELSE IF float(parts[4]) = ValueError
        THEN [raised |-> ValueError, claim |-> None]
        ELSE [raised |-> None,
              claim |-> [claim_id |-> parts[2], amount |-> float(parts[4])]]

\* Lines 5-16: the claims of the text, or the exception of the first line
\* that raised one.
parse_edi(edi_text) ==
    LET lines == SelectSeq(split(edi_text, "~"),
                           LAMBDA line : startswith(line, TagCLP))
        parsed == [k \in DOMAIN lines |-> ParsedLine(lines[k])]
        bad == {k \in DOMAIN lines : parsed[k].raised # None}
    IN  IF bad # {}
        THEN [raised |-> parsed[CHOOSE k \in bad : \A j \in bad : k <= j].raised,
              claims |-> <<>>]
        ELSE [raised |-> None,
              claims |-> [k \in DOMAIN lines |-> parsed[k].claim]]

\* main with no try/except around its body: the exception goes to the
\* invoker.
main_reraise(exc) == exc

\* Lines 61-62: the exception is logged and main returns; nothing goes to
\* the invoker.
main_except(exc) == None

\* The connection of line 30 goes away without a commit: its open
\* transaction is rolled back.
LegacyRolledBack == SelectSeq(BlobAudit, LAMBDA row : row.xact = Committed)

\* Lines 43-45 and 58-59: insert_claims_to_sql logs, returns False, and main
\* logs a warning and returns.
LegacyFailed ==
    /\ BlobAudit' = LegacyRolledBack
    /\ success' = False
    /\ legacy_pc' = "returned"
    /\ UNCHANGED <<claims, inserted, propagated>>

\* Lines 48-53: read and decode the blob, parse it.
LegacyParse ==
    /\ legacy_pc = "start"
    /\ \E decoded \in BOOLEAN :
        LET result == parse_edi(content[1])
            exc == IF decoded THEN result.raised ELSE UnicodeDecodeError
        IN  IF exc # None
            THEN /\ propagated' = main_except(exc)
                 /\ legacy_pc' = IF main_except(exc) = None THEN "returned"
                                                           ELSE "raised"
                 /\ UNCHANGED <<claims, inserted, success, BlobAudit>>
            ELSE /\ claims' = result.claims
                 /\ legacy_pc' = "connect"
                 /\ UNCHANGED <<inserted, success, propagated, BlobAudit>>
    /\ UNCHANGED main_vars

\* Lines 20-32: pyodbc.connect and conn.cursor().
LegacyConnect ==
    /\ legacy_pc = "connect"
    /\ \E ok \in BOOLEAN :
        IF ~ok THEN LegacyFailed
        ELSE /\ legacy_pc' = "insert"
             /\ inserted' = 0
             /\ UNCHANGED <<claims, success, propagated, BlobAudit>>
    /\ UNCHANGED main_vars

\* Lines 34-38: one iteration of the insert loop.
LegacyInsert ==
    /\ legacy_pc = "insert"
    /\ inserted < Len(claims)
    /\ \E ok \in BOOLEAN :
        IF ~ok THEN LegacyFailed
        ELSE /\ BlobAudit' = Append(BlobAudit,
                    [ClaimID |-> claims[inserted + 1].claim_id,
                     Amount |-> claims[inserted + 1].amount,
                     xact |-> 1])
             /\ inserted' = inserted + 1
             /\ UNCHANGED <<legacy_pc, claims, success, propagated>>
    /\ UNCHANGED main_vars

\* Lines 39-41 and 56-57: commit, return True, and main returns.
LegacyCommit ==
    /\ legacy_pc = "insert"
    /\ inserted = Len(claims)
    /\ \E ok \in BOOLEAN :
        IF ~ok THEN LegacyFailed
        ELSE /\ BlobAudit' = [k \in DOMAIN BlobAudit |->
                                [BlobAudit[k] EXCEPT !.xact = Committed]]
             /\ success' = True
             /\ legacy_pc' = "returned"
             /\ UNCHANGED <<claims, inserted, propagated>>
    /\ UNCHANGED main_vars

NextLegacy ==
    \/ LegacyParse
    \/ LegacyConnect
    \/ LegacyInsert
    \/ LegacyCommit

\* CLP|X9
SegClpTwoFields == <<"C", "L", "P", "|", "X", "9">>

\* CLP
SegClpBare == <<"C", "L", "P">>

\* The segment texts a blob for the legacy entry point is drawn from.
LegacyLib ==
    { SegClpExample, SegClpShort, SegClpTwoFields, SegClpBare, SegSvcExample,
      SegOther }

InitLegacy == InitWith(Blobs(LegacyLib, MaxSegs), {1})

SpecLegacy == InitLegacy /\ [][NextLegacy]_vars

\* ------------------------------------------------------------- properties
\* What the blob of run r holds, read off its text.
Toks(r) == Tokenize(content[r])
TagAt(r, k) == strip(split1(Toks(r)[k], "|"))
PartsAt(r, k) == split(Toks(r)[k], "|")
Tagged(r, tag) == {k \in 1..Len(Toks(r)) : TagAt(r, k) = tag}

\* How many segments the loop of run r has been through.
Processed(r) ==
    IF pc[r] = "committed" THEN Len(Toks(r))
    ELSE IF pc[r] = "parse" THEN pos[r] - 1
    ELSE 0

Max(S) == CHOOSE x \in S : \A y \in S : y <= x

\* The committed state of the store: what another connection reads.
AllUndo == UNION {undo[r] : r \in Runs}
CommittedRawRows == SelectSeq(edi_835_raw, LAMBDA row : row.xact = Committed)
CommittedClaims ==
    {c \in edi_835_claims : c.xact = Committed}
        \cup {u.row : u \in {u \in AllUndo : u.table = "claims"}}
CommittedServices ==
    {s \in edi_835_services : s.xact = Committed}
        \cup {u.row : u \in {u \in AllUndo : u.table = "services"}}

\* The rows of run r, by the timestamp and the history they carry.
RawOf(rows, r) == SelectSeq(rows, LAMBDA row : row.ingestion_timestamp = now[r])
RowsOf(table, r) == {row \in table : row.h_run = r}

\* Nothing of run r's transaction is left open.
Closed(r) ==
    /\ undo[r] = {}
    /\ \A k \in DOMAIN edi_835_raw : edi_835_raw[k].xact # r
    /\ \A c \in edi_835_claims : c.xact # r
    /\ \A s \in edi_835_services : s.xact # r

\* Run r2 began after run r1, on the same bytes, had committed.
Successive(r1, r2) ==
    /\ r1 # r2
    /\ pc[r1] = "committed"
    /\ pc[r2] = "committed"
    /\ content[r1] = content[r2]
    /\ summary[r1].at < now[r2]

\* C1: after two successive successful runs of main on the same bytes, the
\* second run has inserted no claim row and no service row: the store holds
\* the graph of the first run alone.
C1_SecondIngestInsertsNothing ==
    \A r1, r2 \in Runs :
        Successive(r1, r2) =>
            /\ RowsOf(CommittedClaims, r2) = {}
            /\ RowsOf(CommittedServices, r2) = {}

\* The positions of the text where a segment's first non-blank character
\* stands: one per non-empty segment.
SegmentStarts(text) ==
    {k \in 1..Len(text) :
        /\ text[k] \notin Whitespace \cup {"~"}
        /\ \A j \in 1..(k - 1) :
            (\A m \in j..(k - 1) : text[m] # "~") => text[j] \in Whitespace}

\* C2: atomic persistence.  Whatever store operation fails, the committed
\* state holds of a run either nothing or its complete batch (a raw row per
\* segment, a claim per CLP, a service per SVC), the latter exactly when the
\* run committed; and a finished run leaves nothing uncommitted behind.
C2_AtomicPersistence ==
    \A r \in Runs :
        LET raws == RawOf(CommittedRawRows, r)
            cls == RowsOf(CommittedClaims, r)
            svs == RowsOf(CommittedServices, r)
        IN  /\ IF pc[r] = "committed"
               THEN /\ Len(raws) = Cardinality(SegmentStarts(content[r]))
                    /\ Cardinality(cls) = Cardinality(Tagged(r, TagCLP))
                    /\ Cardinality(svs) = Cardinality(Tagged(r, TagSVC))
               ELSE /\ raws = <<>>
                    /\ cls = {}
                    /\ svs = {}
            /\ pc[r] \in {"committed", "raised", "returned"} => Closed(r)

\* C2 witness: a store operation failed after run 1 had inserted raw rows, a
\* claim and a service, and the store is empty again.
C2_Witness ==
    /\ pc[1] = "raised"
    /\ error[1] = PyodbcError
    /\ next_claim_id > 1
    /\ next_service_id > 1
    /\ edi_835_raw = <<>>
    /\ edi_835_claims = {}
    /\ edi_835_services = {}

\* C3: a run that has ended either committed and logged its counts or
\* re-raised an error; none returned normally without committing.
C3_CommitOrRaise ==
    \A r \in Runs :
        pc[r] \notin {"absent", "start", "raw", "parse"} =>
            \/ pc[r] = "committed" /\ summary[r] # None /\ error[r] = None
            \/ pc[r] = "raised" /\ error[r] # None /\ summary[r] = None

\* The segments between the CLP at k and the next CLP of run r's blob.
ClaimSpan(r, k) ==
    {j \in (k + 1)..Len(Toks(r)) : \A m \in (k + 1)..j : TagAt(r, m) # TagCLP}

\* The identifiers the NM1 segments among js give for the qualifiers quals.
Nm1Ids(r, js, quals) ==
    {Field(PartsAt(r, j), 9) :
        j \in {i \in js : /\ TagAt(r, i) = TagNM1
                          /\ Field(PartsAt(r, i), 1) \in quals}}

\* C4: every CLP resets the patient and provider context, so a claim's
\* patient_id (provider_id) is absent unless an NM1 segment after its CLP and
\* before the next CLP set it; and a blob of CLP segments alone gives a claim
\* per segment and no service.
C4_ClaimOpenResetsContext ==
    /\ \A c \in edi_835_claims :
        /\ c.nm1_patient_id # None =>
            c.nm1_patient_id \in
                Nm1Ids(c.h_run, ClaimSpan(c.h_run, c.h_seg), {QualQC})
        /\ c.nm1_provider_id # None =>
            c.nm1_provider_id \in
                Nm1Ids(c.h_run, ClaimSpan(c.h_run, c.h_seg), {Qual74, QualPE})
    /\ \A r \in Runs :
        pc[r] = "committed" /\ Tagged(r, TagCLP) = 1..Len(Toks(r)) =>
            /\ Cardinality(RowsOf(CommittedClaims, r)) = Len(Toks(r))
            /\ RowsOf(CommittedServices, r) = {}

\* C5: a service row's claim_id is the key of the claim that the nearest CLP
\* before its SVC segment, in the same run, created; with no CLP before it,
\* it is NULL.  It is never the key of another claim.
C5_ServiceOwnedByNearestClaim ==
    \A s \in edi_835_services :
        LET before == {k \in Tagged(s.h_run, TagCLP) : k < s.h_seg}
        IN  IF before = {} THEN s.claim_id = None
            ELSE \E c \in edi_835_claims :
                    /\ c.h_run = s.h_run
                    /\ c.h_seg = Max(before)
                    /\ s.claim_id = c.claim_id

\* C5 witness: a committed run whose first SVC had no claim open and whose
\* later SVC came after a CLP.
C5_Witness ==
    /\ pc[1] = "committed"
    /\ \E s1, s2 \in CommittedServices :
        /\ s1.h_seg < s2.h_seg
        /\ s1.claim_id = None
        /\ s2.claim_id # None

\* C6: a run produces as many raw rows as its blob has non-empty segments,
\* whatever the segments hold.
C6_RawRowPerSegment ==
    \A r \in Runs :
        pc[r] \in {"parse", "committed"} =>
            Len(RawOf(edi_835_raw, r)) = Cardinality(SegmentStarts(content[r]))

\* C6 witness: a committed blob of three terminated pieces of which one is
\* blank: two raw rows.
C6_Witness ==
    /\ pc[1] = "committed"
    /\ Cardinality({k \in 1..Len(content[1]) : content[1][k] = "~"}) = 3
    /\ Len(CommittedRawRows) = 2

Adjustment(row) ==
    <<row.cas_group_code, row.cas_reason_code, row.cas_adjustment_amount>>

\* The adjustment the CAS segments read so far leave on the service of
\* segment k: that of the last CAS read while that service was the newest one
\* of its claim, none when there was no such CAS.
ExpectedAdjustment(r, k) ==
    LET pending == {j \in (k + 1)..Processed(r) :
                        \A m \in (k + 1)..j : TagAt(r, m) \notin {TagSVC, TagCLP}}
        cas == {j \in pending : TagAt(r, j) = TagCAS}
    IN  IF cas = {} THEN <<None, None, None>>
        ELSE Adjustment(CasValues(PartsAt(r, Max(cas))))

\* C7: a CAS segment patches the most recently inserted service and no
\* other: every service row carries the triple of the last CAS that followed
\* it directly, and a service followed by another SVC keeps what it had.
C7_CasPatchesPendingServiceOnly ==
    \A s \in edi_835_services :
        Adjustment(s) = ExpectedAdjustment(s.h_run, s.h_seg)

\* C7 witness: a committed run with two services, the earlier untouched and
\* the later adjusted.
C7_Witness ==
    /\ pc[1] = "committed"
    /\ \E s1, s2 \in CommittedServices :
        /\ s1.h_seg < s2.h_seg
        /\ s1.claim_id = s2.claim_id
        /\ Adjustment(s1) = <<None, None, None>>
        /\ s2.cas_group_code # None

\* The text at field k is no amount: missing, empty or not a number.
NoAmount(parts, k) ==
    \/ Len(parts) <= k
    \/ strip(parts[k + 1]) = <<>>
    \/ Decimal(strip(parts[k + 1])) = InvalidOperation

NullOrDate(v) == v = None \/ (v[1] = "Date" /\ v[3] \in 1..12 /\ v[4] \in 1..31)

\* C8: malformed fields never abort a run.  No conversion or field access
\* raises: the only error a run ends with is a failure of the store.  A
\* missing field is NULL, a missing, empty or non-numeric amount is NULL, a
\* date column holds NULL or a date, and a claim-level DTM with a date that
\* does not parse leaves NULL in the open claim.
C8_MalformedFieldsNeverAbort ==
    /\ \A r \in Runs : pc[r] = "raised" => error[r] = PyodbcError
    /\ \A r \in Runs :
        /\ pc[r] = "parse"
        /\ pos[r] > 1
        /\ TagAt(r, pos[r] - 1) = TagDTM
        /\ Len(PartsAt(r, pos[r] - 1)) > 2
        /\ strip(PartsAt(r, pos[r] - 1)[2]) \in {Qual050, Qual232, Qual233}
        /\ strptime(strip(PartsAt(r, pos[r] - 1)[3])) = ValueError
        => \A c \in edi_835_claims :
                c.claim_id = current_claim_db_id[r] => c.dtm_service_date = None
    /\ \A c \in edi_835_claims :
        LET parts == PartsAt(c.h_run, c.h_seg)
        IN  /\ Len(parts) <= 1 => c.clp_patient_control_number = None
            /\ NoAmount(parts, 3) => c.clp_total_charge_amount = None
            /\ NoAmount(parts, 4) => c.clp_payment_amount = None
            /\ NoAmount(parts, 5) => c.clp_patient_responsibility = None
            /\ NullOrDate(c.dtm_service_date)
    /\ \A s \in edi_835_services :
        LET parts == PartsAt(s.h_run, s.h_seg)
        IN  /\ Len(parts) <= 1 => s.svc_procedure_code = None
            /\ NoAmount(parts, 2) => s.svc_charge_amount = None
            /\ NoAmount(parts, 3) => s.svc_paid_amount = None
            /\ NullOrDate(s.service_date)

\* C8 witness: a run committed the claim of CLP|X9|1|1x, its amounts NULL, and
\* the service of a bare SVC tag.
C8_Witness ==
    /\ pc[1] = "committed"
    /\ \E c \in CommittedClaims :
        /\ c.clp_patient_control_number = <<"X", "9">>
        /\ c.clp_total_charge_amount = None
    /\ \E s \in CommittedServices :
        /\ s.svc_procedure_code = None
        /\ s.svc_charge_amount = None

\* The example of the specification:
\* CLP|ABC123|1|100.00|80.00|20.00|||11||~SVC|HC^A0428^RJ|100.00|80.00~CAS|CO|45|20.00~
Example == Terminated(<<SegClpExample, SegSvcExample, SegCasExample>>)

Amount(cents) == <<"Decimal", 0, cents, -2>>

\* C9: ingesting the example commits one claim (ABC123, 100.00, 80.00,
\* 20.00), one service of that claim (A0428, 100.00, 80.00) adjusted by
\* (CO, 45, 20.00), and three raw rows.
C9_Example ==
    pc[1] = "committed" /\ content[1] = Example =>
        /\ Len(CommittedRawRows) = 3
        /\ Cardinality(CommittedClaims) = 1
        /\ Cardinality(CommittedServices) = 1
        /\ \A c \in CommittedClaims, s \in CommittedServices :
            /\ c.clp_patient_control_number = <<"A", "B", "C", "1", "2", "3">>
            /\ c.clp_total_charge_amount = Amount(10000)
            /\ c.clp_payment_amount = Amount(8000)
            /\ c.clp_patient_responsibility = Amount(2000)
            /\ s.claim_id = c.claim_id
            /\ s.svc_procedure_code = <<"A", "0", "4", "2", "8">>
            /\ s.svc_charge_amount = Amount(10000)
            /\ s.svc_paid_amount = Amount(8000)
            /\ Adjustment(s) = <<<<"C", "O">>, <<"4", "5">>, Amount(2000)>>

\* C9 witness: the example, committed.
C9_Witness ==
    /\ pc[1] = "committed"
    /\ content[1] = Example
    /\ summary[1].claims = 1

\* Runs r1 and r2 committed the same bytes and each began before the other
\* had committed.
Overlapping(r1, r2) ==
    /\ r1 # r2
    /\ pc[r1] = "committed"
    /\ pc[r2] = "committed"
    /\ content[r1] = content[r2]
    /\ now[r1] < summary[r2].at
    /\ now[r2] < summary[r1].at

\* C10: of two concurrent runs on the same content one persists its graph
\* and the other ends as a no-op, not as an error: the store never holds a
\* graph of each.
C10_ConcurrentDuplicatePersistsOnce ==
    \A r1, r2 \in Runs :
        Overlapping(r1, r2) =>
            \/ RowsOf(CommittedClaims, r1) = {} /\ RowsOf(CommittedServices, r1) = {}
            \/ RowsOf(CommittedClaims, r2) = {} /\ RowsOf(CommittedServices, r2) = {}

\* The claim-level DTM segments (050, 232, 233) with a date that parses,
\* among those read so far while the claim of segment k was the open one.
ClaimDatesRead(r, k) ==
    {j \in ClaimSpan(r, k) :
        /\ j <= Processed(r)
        /\ TagAt(r, j) = TagDTM
        /\ Len(PartsAt(r, j)) > 2
        /\ strip(PartsAt(r, j)[2]) \in {Qual050, Qual232, Qual233}
        /\ safe_date(strip(PartsAt(r, j)[3])) # None}

\* C11: once a claim-level DTM has set a claim's service date, no later
\* segment sets it back to NULL: a claim that has been given a date holds one.
C11_ClaimDateNeverRegresses ==
    \A c \in edi_835_claims :
        ClaimDatesRead(c.h_run, c.h_seg) # {} => c.dtm_service_date # None

\* Run r takes an iteration of its loop over a segment tagged tag, and the
\* store does not fail.
Step(r, tag) ==
    /\ InLoop(r)
    /\ Tag(r) = tag
    /\ pc'[r] = "parse"
    /\ pos'[r] = pos[r] + 1

\* Claim row c before a step and claim row d after it are the same claim.
SameClaim(c, d) == c.claim_id = d.claim_id

\* C12: a claim's patient_id (provider_id), once not NULL, is never NULL
\* again; an NM1 segment of a recognized qualifier with no identifier leaves
\* the open claim's ids as they were, and one with an identifier stores it
\* (so that the last identifier given wins).
C12_EntityIdsNeverRegress ==
    [][/\ \A c \in edi_835_claims, d \in edi_835_claims' :
            SameClaim(c, d) =>
                /\ c.nm1_patient_id # None => d.nm1_patient_id # None
                /\ c.nm1_provider_id # None => d.nm1_provider_id # None
       /\ \A r \in Runs :
            Step(r, TagNM1) =>
                LET entity == Field(Parts(r), 1)
                    id_val == Field(Parts(r), 9)
                IN  \A c \in edi_835_claims, d \in edi_835_claims' :
                        SameClaim(c, d) /\ c.claim_id = current_claim_db_id[r] =>
                            /\ entity \in {QualQC, Qual74, QualPE} /\ id_val = None =>
                                /\ d.nm1_patient_id = c.nm1_patient_id
                                /\ d.nm1_provider_id = c.nm1_provider_id
                            /\ entity = QualQC /\ id_val # None =>
                                d.nm1_patient_id = id_val
                            /\ entity \in {Qual74, QualPE} /\ id_val # None =>
                                d.nm1_provider_id = id_val
      ]_vars

\* C12 witness: a committed run whose last segment is an NM1 of a recognized
\* qualifier with no identifier, read while a claim with a patient_id was
\* open: the claim still has it.
C12_Witness ==
    /\ pc[1] = "committed"
    /\ Len(Toks(1)) = 3
    /\ TagAt(1, 1) = TagCLP
    /\ TagAt(1, 3) = TagNM1
    /\ Field(PartsAt(1, 3), 1) = QualQC
    /\ Field(PartsAt(1, 3), 9) = None
    /\ \E c \in CommittedClaims : c.nm1_patient_id # None

\* No SVC segment stands between segment k of run r's blob and the CLP
\* before it (the start of the blob when there is none).
NoServiceSinceClaim(r, k) ==
    \A j \in 1..(k - 1) :
        TagAt(r, j) = TagSVC => \E m \in (j + 1)..(k - 1) : TagAt(r, m) = TagCLP

\* C13: a CAS segment read while no service is pending, that is before any
\* SVC of the run or after a CLP with no SVC since, changes no claim row and
\* no service row.
C13_CasWithoutPendingServiceIgnored ==
    [][\A r \in Runs :
            /\ Step(r, TagCAS)
            /\ pending_service_id[r] = None \/ NoServiceSinceClaim(r, pos[r])
            => UNCHANGED <<edi_835_claims, edi_835_services>>
      ]_vars

\* C13 witness: the committed blob SVC, CLP, CAS: the CAS came after the CLP
\* closed the service, which has no adjustment.
C13_Witness ==
    /\ pc[1] = "committed"
    /\ Len(Toks(1)) = 3
    /\ TagAt(1, 1) = TagSVC
    /\ TagAt(1, 2) = TagCLP
    /\ TagAt(1, 3) = TagCAS
    /\ PartsAt(1, 3) = split(SegCasExample, "|")
    /\ \E s \in CommittedServices : Adjustment(s) = <<None, None, None>>

\* Table new is table old but for column col of the row whose key is id.
\* With id NULL the two are equal.
OnlyColumn(old, new, key, id, col) ==
    /\ \A s \in old : \E t \in new :
        t = IF s[key] = id THEN [s EXCEPT ![col] = t[col]] ELSE s
    /\ \A t \in new : \E s \in old :
        t = IF s[key] = id THEN [s EXCEPT ![col] = t[col]] ELSE s

\* C14: date dispatch.  A DTM with qualifier 472 changes the service_date of
\* the pending service alone, and nothing when none is pending; one with
\* qualifier 050, 232 or 233 changes the service date of the open claim
\* alone, and nothing when none is open; any other DTM changes no row.
C14_DateDispatch ==
    [][\A r \in Runs :
            Step(r, TagDTM) =>
                LET dtm_qual == Field(Parts(r), 1)
                IN  IF dtm_qual = Qual472
                    THEN /\ UNCHANGED edi_835_claims
                         /\ OnlyColumn(edi_835_services, edi_835_services',
                                       "service_id", pending_service_id[r],
                                       "service_date")
                    ELSE IF dtm_qual \in {Qual050, Qual232, Qual233}
                    THEN /\ UNCHANGED edi_835_services
                         /\ OnlyColumn(edi_835_claims, edi_835_claims',
                                       "claim_id", current_claim_db_id[r],
                                       "dtm_service_date")
                    ELSE UNCHANGED <<edi_835_claims, edi_835_services>>
      ]_vars

\* C14 witness: a committed run in which a DTM 472 dated the service of a
\* claim that has no date itself.
C14_Witness ==
    /\ pc[1] = "committed"
    /\ \E c \in CommittedClaims, s \in CommittedServices :
        /\ s.claim_id = c.claim_id
        /\ s.service_date # None
        /\ c.dtm_service_date = None

\* C15: after a committed run the claim rows it inserted are as many as the
\* segments whose trimmed first field is CLP, the service rows as many as
\* those whose trimmed first field is SVC, and the counts of the summary
\* line are the numbers of rows inserted.
C15_CountsMatchRows ==
    \A r \in Runs :
        pc[r] = "committed" =>
            /\ Cardinality(RowsOf(CommittedClaims, r)) =
                    Cardinality(Tagged(r, TagCLP))
            /\ Cardinality(RowsOf(CommittedServices, r)) =
                    Cardinality(Tagged(r, TagSVC))
            /\ summary[r].claims = Cardinality(RowsOf(CommittedClaims, r))
            /\ summary[r].services = Cardinality(RowsOf(CommittedServices, r))
            /\ summary[r].raw = Len(RawOf(CommittedRawRows, r))

\* C15 witness: a committed run that counted two services, one of them for a
\* segment whose tag stands between blanks, and one claim.
C15_Witness ==
    /\ pc[1] = "committed"
    /\ summary[1].claims = 1
    /\ summary[1].services = 2
    /\ summary[1].raw = 3
    /\ \E k \in 1..Len(Toks(1)) : PartsAt(1, k)[1] # TagSVC /\ TagAt(1, k) = TagSVC

\* ------------------------------------------------------- the pass, by itself
\* The loop of lines 75-166 over the segments of one blob, with nothing else
\* at the store: the statements it issues, in the order it issues them.  A
\* row's key is Id(k), k the segment that inserted it.
PassStart == [claim |-> None, ctx |-> NoContext, pending |-> None, ops |-> <<>>]

PassStep(st, k, parts) ==
    LET tag == strip(parts[1])
        entity == Field(parts, 1)
        ctx == Nm1Ctx(st.ctx, parts)
        dt == safe_date(strip(parts[3]))
    IN  IF tag = TagCLP
        THEN [claim |-> Id(k), ctx |-> st.ctx, pending |-> None,
              ops |-> Append(st.ops,
                        [table |-> "claims", op |-> "insert",
                         row |-> [claim_id |-> Id(k)] @@
                                    ClaimColumns(parts, st.ctx)])]
        ELSE IF tag = TagNM1
        THEN [st EXCEPT
                !.ctx = ctx,
                !.ops = IF st.claim # None /\ entity \in {QualQC, Qual74, QualPE}
                        THEN Append(st.ops, [table |-> "claims", op |-> "nm1",
                                             key |-> st.claim, ctx |-> ctx])
                        ELSE st.ops]
        ELSE IF tag = TagDTM /\ Len(parts) > 2
        THEN IF entity = Qual472 /\ st.pending # None
             THEN [st EXCEPT !.ops =
                    Append(st.ops, [table |-> "services", op |-> "dtm",
                                    key |-> st.pending, dt |-> dt])]
             ELSE IF entity \in {Qual050, Qual232, Qual233} /\ st.claim # None
             THEN [st EXCEPT !.ops =
                    Append(st.ops, [table |-> "claims", op |-> "dtm",
                                    key |-> st.claim, dt |-> dt])]
             ELSE st
        ELSE IF tag = TagSVC
        THEN [st EXCEPT
                !.pending = Id(k),
                !.ops = Append(st.ops,
                            [table |-> "services", op |-> "insert",
                             row |-> [service_id |-> Id(k)] @@
                                        ServiceColumns(parts, st.claim)])]
        ELSE IF tag = TagCAS /\ st.pending # None
        THEN [st EXCEPT !.ops =
                Append(st.ops, [table |-> "services", op |-> "cas",
                                key |-> st.pending, cas |-> CasValues(parts)])]
        ELSE st

RECURSIVE Pass(_, _, _)
Pass(toks, k, st) ==
    IF k > Len(toks) THEN st
    ELSE Pass(toks, k + 1, PassStep(st, k, split(toks[k], "|")))

\* The statements of a run on text.
Batch(text) == Pass(Tokenize(text), 1, PassStart).ops

\* Statement o executed on the tables T.
Applied(T, o) ==
    IF o.op = "insert"
    THEN IF o.table = "claims"
         THEN [T EXCEPT !.claims = T.claims \cup {o.row}]
         ELSE [T EXCEPT !.services = T.services \cup {o.row}]
    ELSE IF o.op = "nm1"
    THEN [T EXCEPT !.claims =
            {IF c.claim_id = o.key THEN Nm1Set(c, o.ctx) ELSE c : c \in T.claims}]
    ELSE IF o.op = "dtm" /\ o.table = "claims"
    THEN [T EXCEPT !.claims =
            {IF c.claim_id = o.key THEN [c EXCEPT !.dtm_service_date = o.dt]
                                   ELSE c : c \in T.claims}]
    ELSE IF o.op = "dtm"
    THEN [T EXCEPT !.services =
            {IF s.service_id = o.key THEN [s EXCEPT !.service_date = o.dt]
                                     ELSE s : s \in T.services}]
    ELSE [T EXCEPT !.services =
            {IF s.service_id = o.key
             THEN [s EXCEPT !.cas_group_code = o.cas.cas_group_code,
                            !.cas_reason_code = o.cas.cas_reason_code,
                            !.cas_adjustment_amount = o.cas.cas_adjustment_amount]
             ELSE s : s \in T.services}]

RECURSIVE Replay(_, _)
Replay(ops, T) ==
    IF ops = <<>> THEN T ELSE Replay(Tail(ops), Applied(T, Head(ops)))

\* What a run on text, alone at an empty store, commits.
Alone(text) == Replay(Batch(text), [claims |-> {}, services |-> {}])

\* The committed rows of run r in the same form: the columns the statements
\* name, keyed by segment.
ClaimColumnNames == DOMAIN ClaimColumns(<<>>, NoContext) \cup {"claim_id"}
ServiceColumnNames == DOMAIN ServiceColumns(<<>>, None) \cup {"service_id"}

ClaimKey(id) ==
    IF id = None THEN None
    ELSE IF \E c \in CommittedClaims : c.claim_id = id
    THEN Id((CHOOSE c \in CommittedClaims : c.claim_id = id).h_seg)
    ELSE <<"no claim">>

KeyedClaims(r) ==
    {[f \in ClaimColumnNames |-> IF f = "claim_id" THEN Id(c.h_seg) ELSE c[f]] :
        c \in RowsOf(CommittedClaims, r)}

KeyedServices(r) ==
    {[f \in ServiceColumnNames |->
            IF f = "service_id" THEN Id(s.h_seg)
            ELSE IF f = "claim_id" THEN ClaimKey(s.claim_id)
            ELSE s[f]] :
        s \in RowsOf(CommittedServices, r)}

\* Run r's committed rows are those of its pass alone.
AsAlone(r) ==
    pc[r] = "committed" =>
        /\ KeyedClaims(r) = Alone(content[r]).claims
        /\ KeyedServices(r) = Alone(content[r]).services

AllAsAlone == \A r \in Runs : AsAlone(r)

\* The step is one of run r.
Acts(r) == pc'[r] # pc[r] \/ pos'[r] # pos[r]

\* Every service that names a claim names one its own run inserted.
OwnClaims ==
    \A s \in edi_835_services :
        s.claim_id # None =>
            \E c \in edi_835_claims : c.claim_id = s.claim_id /\ c.h_run = s.h_run

\* C16: run isolation.  However two runs interleave, a step of one leaves
\* the rows of the other as they are, every service references a claim of
\* its own run, and what each run commits is what its pass commits alone.
C16_RunIsolation ==
    /\ [](OwnClaims /\ AllAsAlone)
    /\ [][\A r \in Runs, q \in Runs :
            Acts(r) /\ q # r =>
                /\ RowsOf(edi_835_claims', q) = RowsOf(edi_835_claims, q)
                /\ RowsOf(edi_835_services', q) = RowsOf(edi_835_services, q)
         ]_vars

\* C16 witness: two runs on different blobs, neither begun after the other
\* had committed, have both committed a claim with a service.
C16_Witness ==
    /\ pc[1] = "committed"
    /\ pc[2] = "committed"
    /\ content[1] # content[2]
    /\ now[1] < summary[2].at
    /\ now[2] < summary[1].at
    /\ \A r \in Runs :
        \E c \in RowsOf(CommittedClaims, r), s \in RowsOf(CommittedServices, r) :
            s.claim_id = c.claim_id

\* The order the Sink is specified to execute a batch in: the claim inserts,
\* the claim patches, the service inserts, the service patches, each in the
\* order of emission.
Staged(ops) ==
    SelectSeq(ops, LAMBDA o : o.table = "claims" /\ o.op = "insert")
        \o SelectSeq(ops, LAMBDA o : o.table = "claims" /\ o.op # "insert")
        \o SelectSeq(ops, LAMBDA o : o.table = "services" /\ o.op = "insert")
        \o SelectSeq(ops, LAMBDA o : o.table = "services" /\ o.op # "insert")

\* C17: executing each statement as its segment is read commits the claim
\* and service rows that executing the run's statements in the staged order
\* gives.
C17_InterleavedAsStaged ==
    \A r \in Runs :
        pc[r] = "committed" =>
            LET T == Replay(Staged(Batch(content[r])),
                            [claims |-> {}, services |-> {}])
            IN  /\ KeyedClaims(r) = T.claims
                /\ KeyedServices(r) = T.services

\* C17 witness: a committed run that patched a claim after it had inserted a
\* service, which the staged order does the other way round.
C17_Witness ==
    /\ pc[1] = "committed"
    /\ LET ops == Batch(content[1])
       IN  \E i, j \in DOMAIN ops :
            /\ i < j
            /\ ops[i].table = "services"
            /\ ops[j].table = "claims"
            /\ ops[j].op # "insert"

KnownTags == {TagCLP, TagNM1, TagDTM, TagSVC, TagCAS}

\* C18: a segment whose tag is none of CLP, NM1, DTM, SVC, CAS has its raw
\* row and no other effect: the iteration over it changes no claim row, no
\* service row and nothing of the parse context.
C18_OtherTagsOnlyRaw ==
    [][\A r \in Runs :
            InLoop(r) /\ Tag(r) \notin KnownTags /\ Acts(r) =>
                /\ \E k \in DOMAIN edi_835_raw :
                    /\ edi_835_raw[k].xact = r
                    /\ edi_835_raw[k].segment_content = segs[r][pos[r]]
                /\ pc'[r] = "parse"
                /\ UNCHANGED <<edi_835_raw, edi_835_claims, edi_835_services>>
                /\ current_claim_db_id'[r] = current_claim_db_id[r]
                /\ current_claim_ctx'[r] = current_claim_ctx[r]
                /\ pending_service_id'[r] = pending_service_id[r]
      ]_vars

\* C18 witness: run 1 has just passed a segment of another tag with a claim
\* open, a patient known and a service pending.
C18_Witness ==
    /\ pc[1] = "parse"
    /\ pos[1] > 1
    /\ TagAt(1, pos[1] - 1) \notin KnownTags
    /\ current_claim_db_id[1] # None
    /\ pending_service_id[1] # None

\* The service run r holds as pending belongs to the claim it holds as open
\* (NULL when it holds none).
Coherent(r) ==
    pending_service_id[r] # None =>
        /\ \E s \in edi_835_services : s.service_id = pending_service_id[r]
        /\ \A s \in edi_835_services :
            s.service_id = pending_service_id[r] =>
                s.claim_id = current_claim_db_id[r]

\* C19: context coherence.  Whenever a service is pending it is a service of
\* the open claim, so that a DTM or CAS iteration changes service rows of the
\* open claim only.
C19_ContextCoherence ==
    /\ [](\A r \in Runs : Coherent(r))
    /\ [][\A r \in Runs :
            Step(r, TagDTM) \/ Step(r, TagCAS) =>
                \A s \in edi_835_services :
                    s \notin edi_835_services' =>
                        s.claim_id = current_claim_db_id[r]
         ]_vars

\* C19 witness: a claim is open in run 1 with a service of its own pending,
\* beside an earlier service that is not of this claim.
C19_Witness ==
    /\ pc[1] = "parse"
    /\ pending_service_id[1] # None
    /\ current_claim_db_id[1] # None
    /\ \E s \in edi_835_services :
        /\ s.service_id = pending_service_id[1]
        /\ s.claim_id = current_claim_db_id[1]
    /\ \E s \in edi_835_services : s.claim_id # current_claim_db_id[1]

\* The text has a line that starts with CLP and has fewer than four fields
\* or an amount that is no number.
BadClp(text) ==
    \E k \in DOMAIN split(text, "~") :
        LET line == split(text, "~")[k]
            parts == split(line, "|")
        IN  /\ startswith(line, TagCLP)
            /\ Len(parts) < 4 \/ float(parts[4]) = ValueError

\* C20: the legacy main lets no exception out to its invoker.  When a CLP
\* line is short or has a non-numeric amount, or when the connection, an
\* insert or the commit fails, it has returned with no row of the file in
\* dbo.BlobAudit; rows are committed only by a run that succeeded, and then
\* one per claim.
C20_LegacyNeverPropagates ==
    /\ propagated = None
    /\ legacy_pc # "raised"
    /\ legacy_pc = "returned" /\ (BadClp(content[1]) \/ success # True) =>
            BlobAudit = <<>>
    /\ \A k \in DOMAIN BlobAudit :
            BlobAudit[k].xact = Committed =>
                success = True /\ Len(BlobAudit) = Len(claims)

\* C20 witness: the blob's first CLP line is good and its second has the
\* amount 1x; main has returned and the table is empty.
C20_Witness ==
    /\ legacy_pc = "returned"
    /\ content[1] = Terminated(<<SegClpExample, SegClpShort>>)
    /\ BlobAudit = <<>>
    /\ propagated = None
====
